---- MODULE Spec2Model ----
(***************************************************************************)
(* Resource-budget planning of rainbow (rcmgr.go): makeResourceMgrs,       *)
(* makeResourceManagerConfig and makeSeparateDHTClientResourceManagerConfig*)
(* as a sequential state machine, one action per block of statements.      *)
(*                                                                         *)
(* A rcmgr.LimitVal / LimitVal64 is an integer: 0 is DefaultLimit, -1 is   *)
(* Unlimited, -2 is BlockAllLimit, any other value is the bound itself.    *)
(* A rcmgr.BaseLimit field (ConcreteLimitConfig) is a plain integer, with  *)
(* math.MaxInt standing for "no bound".                                    *)
(***************************************************************************)
EXTENDS Integers, FiniteSets, Sequences, TLC

----------------------------------------------------------------------------
(* Bounds of the model: the inputs the planner is called with.             *)

\* memory budgets of 0..MaxSmallMem bytes (budgets below 4 bytes and above)
MaxSmallMem == 5
\* memory budgets of 1..MaxSmallMB MiB, exact and one byte short of the next
MaxSmallMB == 4
\* memory budgets of MBStep, 2*MBStep, ..., MaxMBSteps*MBStep MiB
MBStep == 400
MaxMBSteps == 3
\* file-descriptor budgets 0..MaxSmallFD
MaxSmallFD == 8
\* connection-manager high-water marks 0, HWStep, ..., MaxHWSteps*HWStep
HWStep == 200
MaxHWSteps == 3
\* the environment: memory.TotalMemory() in MiB, fd.GetNumFDs()
EnvMemMB == 1000
EnvNumFDs == 1024

----------------------------------------------------------------------------
(* Constants of the program and of the rcmgr values it uses.               *)

\* 1024 * 1024
MiB == 1048576
DefaultLimit == 0
Unlimited == -1
BlockAllLimit == -2
\* math.MaxInt (and math.MaxInt64): above every bounded value of the model
MaxInt == 2147483647
\* the floor of the sanity override
MinInboundConns == 800
\* makeSeparateDHTClientResourceManagerConfig's fixed limits
DhtConnsInbound == 30
DhtStreamsPerPeerInbound == 10

Fields ==
    {"Memory", "FD", "Conns", "ConnsInbound", "ConnsOutbound",
     "Streams", "StreamsInbound", "StreamsOutbound"}

InfiniteScopes ==
    {"AllowlistedSystem", "AllowlistedTransient", "ServiceDefault",
     "ServicePeerDefault", "ProtocolDefault", "ProtocolPeerDefault",
     "Conn", "Stream"}

Scopes == {"System", "Transient", "PeerDefault"} \cup InfiniteScopes

Max(a, b) == IF a < b THEN b ELSE a

\* uint64(float64(x) * 0.85): the integer part of 85% of x
Pct85(x) == (x \div 20) * 17 + ((x % 20) * 17) \div 20

\* int(float64(x) * 0.75): the integer part of 75% of x
Pct75(x) == (x \div 4) * 3 + ((x % 4) * 3) \div 4

----------------------------------------------------------------------------
(* go-libp2p's resource-manager values, as the program uses them.          *)

\* rcmgr.InfiniteLimits.ToPartialLimitConfig().System
infiniteResourceLimits == [f \in Fields |-> Unlimited]

\* LimitVal.Build / LimitVal64.Build: resolve one field against a default
BuildVal(l, defaultVal) ==
    IF l = DefaultLimit THEN defaultVal
    ELSE IF l = Unlimited THEN MaxInt
    ELSE IF l = BlockAllLimit THEN 0
    ELSE l

\* valueOrBlockAll: a resolved field back as a LimitVal
ValueOrBlockAll(n) ==
    IF n = 0 THEN BlockAllLimit
    ELSE IF n = MaxInt THEN Unlimited
    ELSE n

\* PartialLimitConfig.Build(defaults): every field of every scope resolved
BuildConfig(partial, defaults) ==
    [s \in Scopes |-> [f \in Fields |-> BuildVal(partial[s][f], defaults[s][f])]]

\* ConcreteLimitConfig.ToPartialLimitConfig()
ToPartialLimitConfig(concrete) ==
    [s \in Scopes |-> [f \in Fields |-> ValueOrBlockAll(concrete[s][f])]]

\* rcmgr.ConcreteLimitConfig{}: the zero value
EmptyConcrete == [s \in Scopes |-> [f \in Fields |-> 0]]

Limit(mem, fd, conns, connsIn, connsOut, streams, streamsIn, streamsOut) ==
    [Memory |-> mem, FD |-> fd, Conns |-> conns, ConnsInbound |-> connsIn,
     ConnsOutbound |-> connsOut, Streams |-> streams,
     StreamsInbound |-> streamsIn, StreamsOutbound |-> streamsOut]

\* rcmgr.DefaultLimits with libp2p.SetDefaultServiceLimits applied: the base
\* limit of every scope (Memory in bytes)
BaseLimits ==
    [System               |-> Limit(128 * MiB, 256, 128, 64, 128, 2048, 1024, 2048),
     Transient            |-> Limit(32 * MiB, 64, 64, 32, 64, 256, 128, 256),
     AllowlistedSystem    |-> Limit(128 * MiB, 256, 128, 64, 128, 2048, 1024, 2048),
     AllowlistedTransient |-> Limit(32 * MiB, 64, 64, 32, 64, 256, 128, 256),
     ServiceDefault       |-> Limit(64 * MiB, 0, 0, 0, 0, 4096, 1024, 4096),
     ServicePeerDefault   |-> Limit(16 * MiB, 0, 0, 0, 0, 256, 128, 256),
     ProtocolDefault      |-> Limit(64 * MiB, 0, 0, 0, 0, 2048, 512, 2048),
     ProtocolPeerDefault  |-> Limit(16 * MiB, 0, 0, 0, 0, 256, 64, 128),
     PeerDefault          |-> Limit(64 * MiB, 4, 8, 8, 8, 512, 256, 512),
     Conn                 |-> Limit(32 * MiB, 1, 1, 1, 1, 0, 0, 0),
     Stream               |-> Limit(16 * MiB, 0, 0, 0, 0, 1, 1, 1)]

\* the increase of every scope per GiB of memory (Memory in KiB: the
\* increase in bytes shifted right by 10); FD holds the divisor of the
\* FDFraction (1, 1/4, 1/64), 0 for no fraction
LimitIncreases ==
    [System               |-> Limit(1024 * 1024, 1, 128, 64, 128, 2048, 1024, 2048),
     Transient            |-> Limit(128 * 1024, 4, 32, 16, 32, 256, 128, 256),
     AllowlistedSystem    |-> Limit(1024 * 1024, 1, 128, 64, 128, 2048, 1024, 2048),
     AllowlistedTransient |-> Limit(128 * 1024, 4, 32, 16, 32, 256, 128, 256),
     ServiceDefault       |-> Limit(128 * 1024, 0, 0, 0, 0, 2048, 512, 2048),
     ServicePeerDefault   |-> Limit(4 * 1024, 0, 0, 0, 0, 8, 4, 8),
     ProtocolDefault      |-> Limit(164 * 1024, 0, 0, 0, 0, 512, 256, 512),
     ProtocolPeerDefault  |-> Limit(4 * 1024, 0, 0, 0, 0, 8, 4, 16),
     PeerDefault          |-> Limit(128 * 1024, 64, 0, 0, 0, 8, 4, 8),
     Conn                 |-> Limit(0, 0, 0, 0, 0, 0, 0, 0),
     Stream               |-> Limit(0, 0, 0, 0, 0, 0, 0, 0)]

\* scale(base, inc, memory, numFD): base + (inc * mebibytesAvailable) >> 10,
\* with mebibytesAvailable = memory >> 20 above 128 MiB and 0 otherwise;
\* FD = int(FDFraction * numFD), at least the base
ScaleLimit(base, inc, memory, numFD) ==
    LET mebibytesAvailable ==
            IF memory > 128 * MiB THEN memory \div MiB ELSE 0
        scaledFD ==
            IF inc.FD > 0 /\ numFD > 0
            THEN Max(numFD \div inc.FD, base.FD)
            ELSE base.FD
    IN  [f \in Fields |->
            IF f = "FD" THEN scaledFD
            ELSE IF f = "Memory" THEN base.Memory + inc.Memory * mebibytesAvailable
            ELSE base[f] + (inc[f] * mebibytesAvailable) \div 1024]

\* scalingLimitConfig.Scale(int64(maxMemory), maxFD)
Scale(memory, numFD) ==
    [s \in Scopes |-> ScaleLimit(BaseLimits[s], LimitIncreases[s], memory, numFD)]

----------------------------------------------------------------------------
(* The pure parts of the planner.                                          *)

\* partialLimits of makeResourceManagerConfig, as written before the merge
GeneralPartialLimits(memory, numFD) ==
    LET maxMemoryMB == memory \div MiB
        systemConnsInbound == 1 * maxMemoryMB
    IN  [s \in Scopes |->
            CASE s = "System" ->
                    Limit(memory, numFD, Unlimited, systemConnsInbound, Unlimited,
                          Unlimited, Unlimited, Unlimited)
              [] s = "Transient" ->
                    Limit(memory \div 4, numFD \div 4, Unlimited,
                          systemConnsInbound \div 4, Unlimited,
                          Unlimited, Unlimited, Unlimited)
              [] s = "PeerDefault" ->
                    Limit(Unlimited, Unlimited, Unlimited, DefaultLimit, Unlimited,
                          Unlimited, DefaultLimit, Unlimited)
              [] OTHER -> infiniteResourceLimits]

DhtPartialLimitsByFormula(memory, numFD) == GeneralPartialLimits(memory, numFD)

\* partialLimits of makeSeparateDHTClientResourceManagerConfig
DhtPartialLimits(memory, numFD) ==
    LET systemConnsInbound == DhtConnsInbound
        systemStreamsPerPeerInbound == DhtStreamsPerPeerInbound
    IN  [s \in Scopes |->
            CASE s = "System" ->
                    Limit(memory, numFD, Unlimited, systemConnsInbound, Unlimited,
                          Unlimited, Unlimited, Unlimited)
              [] s = "Transient" ->
                    Limit(memory \div 4, numFD \div 4, Unlimited,
                          systemConnsInbound \div 4, Unlimited,
                          Unlimited, Unlimited, Unlimited)
              [] s = "PeerDefault" ->
                    Limit(Unlimited, Unlimited, Unlimited, DefaultLimit, Unlimited,
                          Unlimited, systemStreamsPerPeerInbound, Unlimited)
              [] OTHER -> infiniteResourceLimits]

MergeSkipped(partial, memory, numFD) == partial

\* partialLimits.Build(scalingLimitConfig.Scale(...)).ToPartialLimitConfig()
MergeScaled(partial, memory, numFD) ==
    ToPartialLimitConfig(BuildConfig(partial, Scale(memory, numFD)))

ClampWithoutFloor(connsInbound, highWater) ==
    Max(connsInbound, highWater * 2)

\* maxInboundConns: raised to twice the high-water mark, then to the floor
ClampInboundConns(connsInbound, highWater) ==
    LET connmgrHighWaterTimesTwo == highWater * 2
        raised == IF connsInbound < connmgrHighWaterTimesTwo
                  THEN connmgrHighWaterTimesTwo ELSE connsInbound
    IN  IF raised < MinInboundConns THEN MinInboundConns ELSE raised

RescaleAfterWrite(maxInboundConns, streamsInbound, connsInbound) ==
    IF streamsInbound > DefaultLimit
    THEN (maxInboundConns * streamsInbound) \div maxInboundConns
    ELSE streamsInbound

\* System.StreamsInbound after the override: rescaled only when it is a bound
RescaleStreams(maxInboundConns, streamsInbound, connsInbound) ==
    IF streamsInbound > DefaultLimit
    THEN (maxInboundConns * streamsInbound) \div connsInbound
    ELSE streamsInbound

\* the sanity override of partialLimits.System
SanityOverride(system, highWater) ==
    IF system.ConnsInbound > DefaultLimit
    THEN LET maxInboundConns == ClampInboundConns(system.ConnsInbound, highWater)
         IN  [system EXCEPT
                !.StreamsInbound =
                    RescaleStreams(maxInboundConns, system.StreamsInbound,
                                   system.ConnsInbound),
                !.ConnsInbound = maxInboundConns]
    ELSE system

DhtShareFifteenPercent(total, primary) ==
    (total \div 20) * 3 + ((total % 20) * 3) \div 20

\* the remainder of the budget, for the DHT host
DhtShare(total, primary) == total - primary

----------------------------------------------------------------------------
(* The state of one call of makeResourceMgrs.                              *)

VARIABLES
    callMemory,        \* the caller's maxMemory argument
    callFD,            \* the caller's maxFD argument
    connMgrHighWater,  \* the caller's connMgrHighWater argument
    separateDHT,       \* the caller's separateDHT argument
    sysTotalMemory,    \* memory.TotalMemory()
    numFDs,            \* fd.GetNumFDs()
    pc,                \* the statement the call is at
    maxMemory,         \* makeResourceMgrs' maxMemory, after its default
    maxFD,             \* makeResourceMgrs' maxFD, after its default
    bitswapHostMem, bitswapHostFDs, dhtHostMem, dhtHostFDs,
    argMemory,         \* the maxMemory the running builder was called with
    argFD,             \* the maxFD the running builder was called with
    cfgMemory,         \* the running builder's maxMemory, after its default
    cfgFD,             \* the running builder's maxFD, after its default
    partialLimits,     \* the running builder's partialLimits
    preOverride,       \* partialLimits.System as the override found it
    bitswapConfig,     \* the limitConfig makeResourceManagerConfig returned
    dhtConfig,         \* the limitConfig the DHT-client builder returned
    bitswapHostRcMgr,  \* the first resource manager built, in dual-host mode
    result,            \* makeResourceMgrs' (bitswapHost, dhtHost, err), at "done"
    envUsed            \* the environment defaults taken, by statement

vars ==
    <<callMemory, callFD, connMgrHighWater, separateDHT, sysTotalMemory, numFDs,
      pc, maxMemory, maxFD, bitswapHostMem, bitswapHostFDs, dhtHostMem,
      dhtHostFDs, argMemory, argFD, cfgMemory, cfgFD, partialLimits, preOverride,
      bitswapConfig, dhtConfig, bitswapHostRcMgr, result, envUsed>>

\* a nil error
Nil == "nil"

\* a nil network.ResourceManager
NilManager == [nil |-> TRUE, limiter |-> EmptyConcrete]

\* the zero value of a rcmgr.PartialLimitConfig
ZeroPartial == [s \in Scopes |-> [f \in Fields |-> DefaultLimit]]

MemoryInputs ==
    (0..MaxSmallMem)
    \cup {mb * MiB : mb \in 1..MaxSmallMB}
    \cup {mb * MiB - 1 : mb \in 1..(MaxSmallMB + 1)}
    \cup {64 * MiB, 1000 * MiB}
    \cup {i * MBStep * MiB : i \in 1..MaxMBSteps}

FDInputs == (0..MaxSmallFD) \cup {256, 1000}

HighWaterInputs == {i * HWStep : i \in 0..MaxHWSteps}

InitInputs ==
    /\ callMemory \in MemoryInputs
    /\ callFD \in FDInputs
    /\ connMgrHighWater \in HighWaterInputs
    /\ separateDHT \in BOOLEAN
    /\ sysTotalMemory \in {0, EnvMemMB * MiB}
    /\ numFDs \in {EnvNumFDs}

Init ==
    /\ InitInputs
    /\ pc = "start"
    /\ maxMemory = callMemory
    /\ maxFD = callFD
    /\ bitswapHostMem = 0 /\ bitswapHostFDs = 0
    /\ dhtHostMem = 0 /\ dhtHostFDs = 0
    /\ argMemory = 0 /\ argFD = 0
    /\ cfgMemory = 0 /\ cfgFD = 0
    /\ partialLimits = ZeroPartial
    /\ preOverride = ZeroPartial.System
    /\ bitswapConfig = EmptyConcrete
    /\ dhtConfig = EmptyConcrete
    /\ bitswapHostRcMgr = NilManager
    /\ result = [bitswapHost |-> NilManager, dhtHost |-> NilManager, err |-> Nil]
    /\ envUsed = {}

inputs == <<callMemory, callFD, connMgrHighWater, separateDHT, sysTotalMemory, numFDs>>
shares == <<bitswapHostMem, bitswapHostFDs, dhtHostMem, dhtHostFDs>>
budget == <<maxMemory, maxFD>>
builder == <<argMemory, argFD, cfgMemory, cfgFD>>
configs == <<bitswapConfig, dhtConfig>>

\* makeResourceMgrs: the defaults for a zero maxMemory and a zero maxFD
MgrsDefaults ==
    /\ pc = "start"
    /\ maxMemory' = IF maxMemory = 0 THEN Pct85(sysTotalMemory) ELSE maxMemory
    /\ maxFD' = IF maxFD = 0 THEN numFDs \div 2 ELSE maxFD
    /\ envUsed' = envUsed
                    \cup (IF maxMemory = 0 THEN {"makeResourceMgrs.maxMemory"} ELSE {})
                    \cup (IF maxFD = 0 THEN {"makeResourceMgrs.maxFD"} ELSE {})
    /\ pc' = "branch"
    /\ UNCHANGED <<inputs, shares, builder, partialLimits, preOverride, configs,
                   bitswapHostRcMgr, result>>

\* !separateDHT: makeResourceManagerConfig is called with the whole budget
SingleHost ==
    /\ pc = "branch"
    /\ ~separateDHT
    /\ argMemory' = maxMemory
    /\ argFD' = maxFD
    /\ pc' = "cfg_defaults"
    /\ UNCHANGED <<inputs, budget, shares, cfgMemory, cfgFD, partialLimits,
                   preOverride, configs, bitswapHostRcMgr, result, envUsed>>

\* separateDHT: the bitswap host's share, handed to makeResourceManagerConfig
SplitBitswap ==
    /\ pc = "branch"
    /\ separateDHT
    /\ bitswapHostMem' = Pct85(maxMemory)
    /\ bitswapHostFDs' = Pct75(maxFD)
    /\ argMemory' = bitswapHostMem'
    /\ argFD' = bitswapHostFDs'
    /\ pc' = "cfg_defaults"
    /\ UNCHANGED <<inputs, budget, dhtHostMem, dhtHostFDs, cfgMemory, cfgFD,
                   partialLimits, preOverride, configs, bitswapHostRcMgr, result,
                   envUsed>>

\* makeResourceManagerConfig: the defaults for a zero maxMemory and maxFD
ConfigDefaults ==
    /\ pc = "cfg_defaults"
    /\ cfgMemory' = IF argMemory = 0 THEN Pct85(sysTotalMemory) ELSE argMemory
    /\ cfgFD' = IF argFD = 0 THEN numFDs \div 2 ELSE argFD
    /\ envUsed' = envUsed
                    \cup (IF argMemory = 0
                          THEN {"makeResourceManagerConfig.maxMemory"} ELSE {})
                    \cup (IF argFD = 0
                          THEN {"makeResourceManagerConfig.maxFD"} ELSE {})
    /\ pc' = "cfg_build"
    /\ UNCHANGED <<inputs, budget, shares, argMemory, argFD, partialLimits,
                   preOverride, configs, bitswapHostRcMgr, result>>

\* makeResourceManagerConfig: partialLimits as written
ConfigBuild ==
    /\ pc = "cfg_build"
    /\ partialLimits' = GeneralPartialLimits(cfgMemory, cfgFD)
    /\ pc' = "cfg_merge"
    /\ UNCHANGED <<inputs, budget, shares, builder, preOverride, configs,
                   bitswapHostRcMgr, result, envUsed>>

\* makeResourceManagerConfig: the merge with the scaled defaults
ConfigMerge ==
    /\ pc = "cfg_merge"
    /\ partialLimits' = MergeScaled(partialLimits, cfgMemory, cfgFD)
    /\ pc' = "cfg_override"
    /\ UNCHANGED <<inputs, budget, shares, builder, preOverride, configs,
                   bitswapHostRcMgr, result, envUsed>>

\* makeResourceManagerConfig: the sanity override against the connmgr values
ConfigOverride ==
    /\ pc = "cfg_override"
    /\ preOverride' = partialLimits.System
    /\ partialLimits' =
            [partialLimits EXCEPT
                !.System = SanityOverride(partialLimits.System, connMgrHighWater)]
    /\ pc' = "cfg_freeze"
    /\ UNCHANGED <<inputs, budget, shares, builder, configs, bitswapHostRcMgr,
                   result, envUsed>>

\* makeResourceManagerConfig: return partialLimits.Build(ConcreteLimitConfig{})
ConfigFreeze ==
    /\ pc = "cfg_freeze"
    /\ bitswapConfig' = BuildConfig(partialLimits, EmptyConcrete)
    /\ pc' = "new_mgr"
    /\ UNCHANGED <<inputs, budget, shares, builder, partialLimits, preOverride,
                   dhtConfig, bitswapHostRcMgr, result, envUsed>>

\* rcmgr.NewResourceManager(rcmgr.NewFixedLimiter(limitConfig)), when it succeeds
NewResourceManager(limitConfig) == [nil |-> FALSE, limiter |-> limitConfig]

ErrorReturnKeepsBuilt(built) ==
    [bitswapHost |-> built, dhtHost |-> NilManager, err |-> "err"]

\* return nil, nil, err  (built: the manager already constructed, if any)
ErrorReturn(built) ==
    [bitswapHost |-> NilManager, dhtHost |-> NilManager, err |-> "err"]

\* the first rcmgr.NewResourceManager and the check of its error
NewBitswapManager ==
    /\ pc = "new_mgr"
    /\ \E failed \in BOOLEAN :
        IF failed
        THEN /\ result' = ErrorReturn(NilManager)
             /\ bitswapHostRcMgr' = bitswapHostRcMgr
             /\ pc' = "done"
        ELSE IF ~separateDHT
        THEN /\ result' = [bitswapHost |-> NewResourceManager(bitswapConfig),
                           dhtHost |-> NilManager, err |-> Nil]
             /\ bitswapHostRcMgr' = bitswapHostRcMgr
             /\ pc' = "done"
        ELSE /\ bitswapHostRcMgr' = NewResourceManager(bitswapConfig)
             /\ result' = result
             /\ pc' = "dht_split"
    /\ UNCHANGED <<inputs, budget, shares, builder, partialLimits, preOverride,
                   configs, envUsed>>

\* the DHT host's share, handed to makeSeparateDHTClientResourceManagerConfig
SplitDht ==
    /\ pc = "dht_split"
    /\ dhtHostMem' = DhtShare(maxMemory, bitswapHostMem)
    /\ dhtHostFDs' = DhtShare(maxFD, bitswapHostFDs)
    /\ argMemory' = dhtHostMem'
    /\ argFD' = dhtHostFDs'
    /\ cfgMemory' = dhtHostMem'
    /\ cfgFD' = dhtHostFDs'
    /\ pc' = "dht_build"
    /\ UNCHANGED <<inputs, budget, bitswapHostMem, bitswapHostFDs, partialLimits,
                   preOverride, configs, bitswapHostRcMgr, result, envUsed>>

\* makeSeparateDHTClientResourceManagerConfig: partialLimits as written
DhtBuild ==
    /\ pc = "dht_build"
    /\ partialLimits' = DhtPartialLimits(cfgMemory, cfgFD)
    /\ pc' = "dht_merge"
    /\ UNCHANGED <<inputs, budget, shares, builder, preOverride, configs,
                   bitswapHostRcMgr, result, envUsed>>

\* makeSeparateDHTClientResourceManagerConfig: the merge with the scaled defaults
DhtMerge ==
    /\ pc = "dht_merge"
    /\ partialLimits' = MergeScaled(partialLimits, cfgMemory, cfgFD)
    /\ pc' = "dht_freeze"
    /\ UNCHANGED <<inputs, budget, shares, builder, preOverride, configs,
                   bitswapHostRcMgr, result, envUsed>>

\* makeSeparateDHTClientResourceManagerConfig: return the frozen partialLimits
DhtFreeze ==
    /\ pc = "dht_freeze"
    /\ dhtConfig' = BuildConfig(partialLimits, EmptyConcrete)
    /\ pc' = "dht_new_mgr"
    /\ UNCHANGED <<inputs, budget, shares, builder, partialLimits, preOverride,
                   bitswapConfig, bitswapHostRcMgr, result, envUsed>>

\* the second rcmgr.NewResourceManager, the check of its error, the return
NewDhtManager ==
    /\ pc = "dht_new_mgr"
    /\ \E failed \in BOOLEAN :
        result' = IF failed
                  THEN ErrorReturn(bitswapHostRcMgr)
                  ELSE [bitswapHost |-> bitswapHostRcMgr,
                        dhtHost |-> NewResourceManager(dhtConfig), err |-> Nil]
    /\ pc' = "done"
    /\ UNCHANGED <<inputs, budget, shares, builder, partialLimits, preOverride,
                   configs, bitswapHostRcMgr, envUsed>>

Next ==
    \/ MgrsDefaults
    \/ SingleHost
    \/ SplitBitswap
    \/ ConfigDefaults
    \/ ConfigBuild
    \/ ConfigMerge
    \/ ConfigOverride
    \/ ConfigFreeze
    \/ NewBitswapManager
    \/ SplitDht
    \/ DhtBuild
    \/ DhtMerge
    \/ DhtFreeze
    \/ NewDhtManager

Spec == Init /\ [][Next]_vars

----------------------------------------------------------------------------
(* The override on its own: partialLimits.System.ConnsInbound and          *)
(* .StreamsInbound range over the values a merge can leave in a field      *)
(* (Unlimited, BlockAllLimit, a bound), then the override and the freeze   *)
(* run.                                                                    *)

\* inbound connection limits 1..MaxMergedConns, inbound stream limits
\* 1..MaxMergedStreams
MaxMergedConns == 4
MaxMergedStreams == 5

MergedValues(maxSmall) ==
    {Unlimited, BlockAllLimit} \cup (1..maxSmall) \cup {64, 1024, 1200}

InitOverride ==
    /\ callMemory = 64 * MiB
    /\ callFD = 256
    /\ connMgrHighWater \in HighWaterInputs
    /\ separateDHT = FALSE
    /\ sysTotalMemory = EnvMemMB * MiB
    /\ numFDs = EnvNumFDs
    /\ pc = "cfg_override"
    /\ maxMemory = callMemory /\ maxFD = callFD
    /\ bitswapHostMem = 0 /\ bitswapHostFDs = 0
    /\ dhtHostMem = 0 /\ dhtHostFDs = 0
    /\ argMemory = callMemory /\ argFD = callFD
    /\ cfgMemory = callMemory /\ cfgFD = callFD
    /\ \E conns \in MergedValues(MaxMergedConns),
          streams \in MergedValues(MaxMergedStreams) :
            partialLimits =
                [MergeScaled(GeneralPartialLimits(cfgMemory, cfgFD), cfgMemory, cfgFD)
                    EXCEPT !.System.ConnsInbound = conns,
                           !.System.StreamsInbound = streams]
    /\ preOverride = ZeroPartial.System
    /\ bitswapConfig = EmptyConcrete
    /\ dhtConfig = EmptyConcrete
    /\ bitswapHostRcMgr = NilManager
    /\ result = [bitswapHost |-> NilManager, dhtHost |-> NilManager, err |-> Nil]
    /\ envUsed = {}

NextOverride ==
    \/ ConfigOverride
    \/ ConfigFreeze

SpecOverride == InitOverride /\ [][NextOverride]_vars

----------------------------------------------------------------------------
(* Properties.                                                             *)

\* makeResourceManagerConfig has returned its limitConfig
BitswapConfigReturned ==
    pc \in {"new_mgr", "dht_split", "dht_build", "dht_merge", "dht_freeze",
            "dht_new_mgr", "done"}

\* makeSeparateDHTClientResourceManagerConfig has returned its limitConfig
DhtConfigReturned ==
    \/ pc = "dht_new_mgr"
    \/ pc = "done" /\ separateDHT /\ ~bitswapHostRcMgr.nil

\* the override has run
Overridden == pc = "cfg_freeze" \/ BitswapConfigReturned

\* C1: whenever System.ConnsInbound is a bound when the override finds it,
\* the System.ConnsInbound of the configuration makeResourceManagerConfig
\* returns is max(that bound, 2 * connMgrHighWater, 800).
C1_InboundOverride ==
    (BitswapConfigReturned /\ preOverride.ConnsInbound > 0) =>
        /\ bitswapConfig.System.ConnsInbound =
                Max(Max(preOverride.ConnsInbound, 2 * connMgrHighWater), 800)
        /\ bitswapConfig.System.ConnsInbound >= Max(2 * connMgrHighWater, 800)
        /\ bitswapConfig.System.ConnsInbound >= preOverride.ConnsInbound

\* 64 MiB with a high-water mark of 600: 64 is raised to 1200
C1_Witness ==
    /\ BitswapConfigReturned
    /\ callMemory = 64 * MiB
    /\ preOverride.ConnsInbound = 64
    /\ connMgrHighWater = 600
    /\ bitswapConfig.System.ConnsInbound = 1200

\* C2: with separateDHT and a positive budget, the bitswap builder is handed
\* floor(0.85 * maxMemory) bytes and floor(0.75 * maxFD) fds, the DHT
\* builder the remainder, and the two shares add up to the budget.
C2_SplitConserves ==
    (separateDHT /\ callMemory > 0 /\ callFD > 0) =>
        /\ pc = "cfg_defaults" =>
            /\ argMemory = bitswapHostMem
            /\ argFD = bitswapHostFDs
            /\ LET q == callMemory \div 20
                   r == callMemory % 20
                   e == bitswapHostMem - 17 * q
               IN  20 * e <= 17 * r /\ 17 * r < 20 * e + 20
            /\ 4 * bitswapHostFDs <= 3 * callFD
            /\ 3 * callFD < 4 * bitswapHostFDs + 4
        /\ pc = "dht_build" =>
            /\ argMemory = dhtHostMem
            /\ argFD = dhtHostFDs
            /\ bitswapHostMem + dhtHostMem = callMemory
            /\ bitswapHostFDs + dhtHostFDs = callFD

\* 1000 MiB and 1000 fds: 850 MiB / 750 and 150 MiB / 250
C2_Witness ==
    /\ pc = "dht_build"
    /\ callMemory = 1000 * MiB /\ callFD = 1000
    /\ bitswapHostMem = 850 * MiB /\ bitswapHostFDs = 750
    /\ argMemory = 150 * MiB /\ argFD = 250

\* C3: for every maxMemory > 0 given to makeResourceManagerConfig,
\* System.ConnsInbound after the merge and before the override is
\* floor(maxMemory / 2^20).
C3_PreOverrideInbound ==
    (pc = "cfg_override" /\ argMemory > 0) =>
        partialLimits.System.ConnsInbound = argMemory \div 1048576


\* the configuration a builder has just returned, and the budget it was given
JustReturned == pc \in {"new_mgr", "dht_new_mgr"}
ReturnedConfig == IF pc = "new_mgr" THEN bitswapConfig ELSE dhtConfig

\* C4: in the configuration either builder returns for a budget (maxMemory,
\* maxFD), Transient.Memory is maxMemory / 4, Transient.FD is maxFD / 4 and
\* Transient.ConnsInbound is System.ConnsInbound / 4.
C4_TransientQuarter ==
    (JustReturned /\ cfgMemory > 0 /\ cfgFD > 0) =>
        /\ ReturnedConfig.Transient.Memory = cfgMemory \div 4
        /\ ReturnedConfig.Transient.FD = cfgFD \div 4
        /\ ReturnedConfig.Transient.ConnsInbound =
                ReturnedConfig.System.ConnsInbound \div 4

\* C5: when makeResourceMgrs is called with maxMemory > 0 and maxFD > 0, no
\* default taken from the environment (85% of the total memory, half of the
\* fd ceiling) enters a configuration: System.Memory and System.FD of each
\* returned configuration are the budget the builder was handed.
C5_NoEnvironmentDefault ==
    (callMemory > 0 /\ callFD > 0) =>
        /\ envUsed = {}
        /\ JustReturned =>
            /\ ReturnedConfig.System.Memory = argMemory
            /\ ReturnedConfig.System.FD = argFD

\* C6: no field of a configuration is DefaultLimit when it is frozen, in
\* either builder: every field of every scope of the returned configuration
\* is the bound partialLimits holds, or math.MaxInt for Unlimited.
C6_NoDefaultLeft ==
    /\ pc \in {"cfg_override", "cfg_freeze", "dht_freeze"} =>
        \A s \in Scopes : \A f \in Fields : partialLimits[s][f] # DefaultLimit
    /\ JustReturned =>
        \A s \in Scopes : \A f \in Fields :
            /\ partialLimits[s][f] # DefaultLimit
            /\ ReturnedConfig[s][f] >= 0
            /\ partialLimits[s][f] = Unlimited <=> ReturnedConfig[s][f] = MaxInt
            /\ partialLimits[s][f] > 0 => ReturnedConfig[s][f] = partialLimits[s][f]

\* both builders have returned, and the fields left to the autoscaler
\* (PeerDefault.ConnsInbound in both, PeerDefault.StreamsInbound in the
\* general one) hold the scaled defaults
C6_Witness ==
    /\ pc = "dht_new_mgr"
    /\ bitswapConfig.PeerDefault.ConnsInbound = 8
    /\ bitswapConfig.PeerDefault.StreamsInbound = 256
    /\ dhtConfig.PeerDefault.ConnsInbound = 8
    /\ bitswapConfig.System.Streams = MaxInt

\* C7: the configuration of the DHT host has System.ConnsInbound = 30 and
\* PeerDefault.StreamsInbound = 10 for every share and every
\* connMgrHighWater: the override does not touch it.
C7_DhtFixedLimits ==
    DhtConfigReturned =>
        /\ dhtConfig.System.ConnsInbound = 30
        /\ dhtConfig.PeerDefault.StreamsInbound = 10

\* twice the high-water mark is above 30 and the bitswap host was raised to it
C7_Witness ==
    /\ DhtConfigReturned
    /\ pc = "done"
    /\ connMgrHighWater * 2 = 1200
    /\ bitswapConfig.System.ConnsInbound = 1200
    /\ dhtConfig.System.ConnsInbound = 30
    /\ dhtConfig.PeerDefault.StreamsInbound = 10

\* C8: when a rcmgr.NewResourceManager fails, makeResourceMgrs returns the
\* error with both managers nil, also when the first one was built; when
\* none fails it returns no error, the bitswap manager, and the DHT manager
\* exactly when separateDHT.
C8_ErrorAborts ==
    pc = "done" =>
        /\ result.err # Nil => result.bitswapHost.nil /\ result.dhtHost.nil
        /\ result.err = Nil =>
            /\ ~result.bitswapHost.nil
            /\ result.bitswapHost.limiter = bitswapConfig
            /\ result.dhtHost.nil <=> ~separateDHT
            /\ separateDHT => result.dhtHost.limiter = dhtConfig

\* the first manager was built, the second failed, and nothing is returned
C8_Witness ==
    /\ pc = "done"
    /\ separateDHT
    /\ ~bitswapHostRcMgr.nil
    /\ result.err # Nil
    /\ result.bitswapHost.nil /\ result.dhtHost.nil

\* C9: when the override finds bounds in both System.ConnsInbound and
\* System.StreamsInbound, the final System.StreamsInbound is
\* finalConnsInbound * foundStreamsInbound / foundConnsInbound (integer
\* division by the value found, not the one written); an Unlimited
\* System.StreamsInbound is left as it is.
C9_StreamsRatio ==
    Overridden =>
        /\ (preOverride.ConnsInbound > 0 /\ preOverride.StreamsInbound > 0) =>
                partialLimits.System.StreamsInbound =
                    (partialLimits.System.ConnsInbound * preOverride.StreamsInbound)
                        \div preOverride.ConnsInbound
        /\ preOverride.StreamsInbound = Unlimited =>
                partialLimits.System.StreamsInbound = Unlimited
        /\ pc = "new_mgr" =>
                bitswapConfig.System.StreamsInbound =
                    BuildVal(partialLimits.System.StreamsInbound, 0)

\* 4 connections with 5 streams, raised to 1200 connections: 1500 streams
C9_Witness ==
    /\ pc = "new_mgr"
    /\ preOverride.ConnsInbound = 4
    /\ preOverride.StreamsInbound = 5
    /\ bitswapConfig.System.ConnsInbound = 1200
    /\ bitswapConfig.System.StreamsInbound = 1500

\* C10: in every configuration returned for a budget with maxMemory > 0 and
\* maxFD > 0, by either builder, the Transient scope does not exceed the
\* System scope in Memory, FD and ConnsInbound.
C10_TransientWithinSystem ==
    (JustReturned /\ argMemory > 0 /\ argFD > 0) =>
        /\ ReturnedConfig.Transient.Memory <= ReturnedConfig.System.Memory
        /\ ReturnedConfig.Transient.FD <= ReturnedConfig.System.FD
        /\ ReturnedConfig.Transient.ConnsInbound <=
                ReturnedConfig.System.ConnsInbound

====
